---------------------------- MODULE Spec2Model ----------------------------
(***************************************************************************)
(* Model of the pipeline supervisor (NodeSupervisor) and of the default    *)
(* callback wiring (DefaultReportingCallbacks.ts).                         *)
(*                                                                         *)
(* Every async function is cut at its await points: the code between two   *)
(* awaits runs without interleaving (one JavaScript job), and one action   *)
(* of the model is one such job.                                           *)
(***************************************************************************)
EXTENDS Integers, Sequences, FiniteSets, TLC

VARIABLES
    chainConfig,        \* NodeSupervisor.chainConfig
    nodes,              \* NodeSupervisor.nodes : id -> Node
    nextNodeId,         \* source of fresh Node ids
    nodeMonitoring,     \* NodeSupervisor.nodeMonitoring (optional)
    broadcastFunction,  \* NodeSupervisor.broadcastFunction
    hostResolver,       \* the HostResolverCallback given to setResolverCallbacks
    calls,              \* the startChain invocations, in call order
    broadcasts,         \* the messages handed to broadcastFunction, in order
    setupPosts,         \* the POSTs launched by broadcastSetupCallback, in order
    log,                \* what Logger has recorded
    unhandled,          \* rejections of promises nobody awaits or catches
    clock,              \* Date.now()
    configured,         \* how many times setChainConfig has been called
    rscs,               \* the invocations of the remote-service callback
    runPosts,           \* the POSTs launched by remoteServiceCallback, in order
    monitoringHosts,    \* MonitoringAgent: chain id -> remote monitoring host
    monitoringResolver, \* the monitoringResolver given to setMonitoringCallbacks
    brcs,               \* the invocations of the broadcast-reporting callback
    notifyPosts,        \* the POSTs launched by broadcastReportingCallback
    requests,           \* the handleRequest invocations, in call order
    detached            \* the Nodes deleted from the nodes map: id -> Node

vars == << chainConfig, nodes, nextNodeId, nodeMonitoring, broadcastFunction,
           hostResolver, calls, broadcasts, setupPosts, log, unhandled, clock,
           configured, rscs, runPosts, monitoringHosts, monitoringResolver, brcs,
           notifyPosts, requests, detached >>

\* the state of the data hand-off and of the reporting
remoteVars == << rscs, runPosts >>
reportVars == << monitoringHosts, monitoringResolver, brcs, notifyPosts >>
\* the state of the signal handling
signalVars == << requests, detached >>
\* the state of the chain start
chainVars == << chainConfig, nextNodeId, nodeMonitoring, broadcastFunction, calls,
                broadcasts, setupPosts, unhandled, clock, configured >>

-----------------------------------------------------------------------------
(* Bounds of the model *)

MaxStages == 2    \* longest chain config
MaxStarts == 2    \* startChain invocations
MaxNodes == 2     \* Node ids handed out
MaxClock == 1     \* latest value of Date.now()
MaxConfigs == 1   \* setChainConfig invocations

-----------------------------------------------------------------------------
(* Values *)

Undefined == "undefined"

Uid == "to be set from outside"

SetupPath == "/setup"

\* a service entry is a bare id (a string) or an object {targetId, meta}
Str(s) == [type |-> "string", value |-> s, targetId |-> Undefined, meta |-> Undefined]
Obj(t, m) == [type |-> "object", value |-> Undefined, targetId |-> t, meta |-> m]

\* ChainConfig: {services, location}
Stages ==
    { [services |-> << Str("A") >>, location |-> "local"],
      [services |-> << Str("B") >>, location |-> "remote"],
      [services |-> << Str("Z") >>, location |-> "remote"],
      [services |-> << >>, location |-> "remote"],
      [services |-> << Obj("B", "m1"), Str("A") >>, location |-> "remote"] }

ChainConfigs == UNION { [1..n -> Stages] : n \in 0..MaxStages }

TargetIds == {"A", "B", "Z", Undefined}
Metas == {"m1", Undefined}

Peer1 == "http://peer1"
Peer2 == "http://peer2"
NotAUrl == "not a url"

\* host resolvers: (targetId, meta) -> string | undefined
ResolverS2 == [t \in TargetIds, m \in Metas |-> IF t = "B" THEN Peer2 ELSE Undefined]
ResolverAll ==
    [t \in TargetIds, m \in Metas |->
        CASE t = "A" -> Peer1
          [] t = "B" -> IF m = "m1" THEN Peer1 ELSE Peer2
          [] OTHER -> Undefined]
ResolverOdd ==
    [t \in TargetIds, m \in Metas |->
        CASE t = "A" -> ""
          [] t = "B" -> IF m = "m1" THEN Peer2 ELSE NotAUrl
          [] t = "Z" -> Peer1
          [] OTHER -> Undefined]
Resolvers == { ResolverS2, ResolverAll, ResolverOdd }

\* the broadcast transports: the constructor's no-op, the default wiring
\* (setResolverCallbacks), and a transport whose promise rejects
Transports == {"noop", "wired", "failing"}

\* JavaScript truthiness of a string | undefined
Truthy(x) == x # Undefined /\ x # ""

\* new URL(path, base) with a relative path: throws unless base is a valid URL
ValidBase(base) == base \in {Peer1, Peer2}
NewURL(path, base) ==
    IF ValidBase(base) THEN [threw |-> FALSE, href |-> << base, path >>]
    ELSE [threw |-> TRUE, href |-> << >>]

Entry(level, event, a, b) == [level |-> level, event |-> event, a |-> a, b |-> b]

-----------------------------------------------------------------------------
(* Node and NodeMonitoring (their files are not part of the sources at hand; *)
(* modelled from the specification's data model)                             *)

\* new Node(dependencies): a fresh id, status PENDING, no delay
NewNode(id, dependencies) ==
    [id |-> id, dependencies |-> dependencies, status |-> "pending", delay |-> 0,
     output |-> Undefined, nextTarget |-> Undefined, chainId |-> Undefined,
     meta |-> Undefined]

\* a NodeMonitoring object: the ids added and not removed, and how many Nodes
\* the supervisor had created when the object was attached to it
NoMonitoring == [attached |-> FALSE, members |-> {}, since |-> 0]
NewMonitoring == [attached |-> TRUE, members |-> {}, since |-> 0]
AddNode(mon, id) == [mon EXCEPT !.members = @ \cup {id}]
RemoveNode(mon, id) == [mon EXCEPT !.members = @ \ {id}]

-----------------------------------------------------------------------------
(* Map operations *)

MapSet(m, k, v) == [x \in DOMAIN m \cup {k} |-> IF x = k THEN v ELSE m[x]]
MapDelete(m, k) == [x \in DOMAIN m \ {k} |-> m[x]]

-----------------------------------------------------------------------------
(* broadcastSetupCallback *)

TargetIdOf(service) ==
    IF service.type = "string" THEN service.value ELSE service.targetId
MetaOf(service) ==
    IF service.type = "string" THEN Undefined ELSE service.meta

\* the body of the try block for one stage: build the request and launch it.
\* JSON.stringify is one-to-one on these values; the body is kept structured.
TrySetupPost(config, chainId, host, path, b, i) ==
    LET url == NewURL(path, host)
    IN  IF url.threw
        THEN [threw |-> TRUE, posts |-> << >>]
        ELSE [threw |-> FALSE,
              posts |-> << [url |-> url.href,
                            body |-> [chainId |-> chainId, remoteConfigs |-> config],
                            status |-> "pending",
                            bcast |-> b,
                            stage |-> i] >>]

\* slip: an unresolved target throws, as it does in remoteServiceCallback
SetupStageThrows(config, chainId, resolver, path, b, i) ==
    IF Len(config.services) = 0
    THEN [posts |-> << >>, log |-> {Entry("warn", "EmptyServices", b, i)}, threw |-> FALSE,
          resolved |-> << >>]
    ELSE LET service == config.services[1]
             targetId == IF service.type = "string" THEN service.value
                         ELSE service.targetId
             meta == IF service.type = "string" THEN Undefined ELSE service.meta
             host == resolver[targetId, meta]
             resolved == << [stage |-> i, targetId |-> targetId, meta |-> meta] >>
         IN  IF ~Truthy(host)
             THEN [posts |-> << >>, log |-> {Entry("warn", "NoAddress", b, i)},
                   threw |-> TRUE, resolved |-> resolved]
             ELSE LET url == NewURL(path, host)
                  IN  IF url.threw
                      THEN [posts |-> << >>,
                            log |-> {Entry("error", "SetupRequestError", b, i)},
                            threw |-> FALSE, resolved |-> resolved]
                      ELSE [posts |-> << [url |-> url.href,
                                          body |-> [chainId |-> chainId,
                                                    remoteConfigs |-> config],
                                          status |-> "pending",
                                          bcast |-> b,
                                          stage |-> i] >>,
                            log |-> {}, threw |-> FALSE, resolved |-> resolved]

\* slip: every service of the stage is resolved and gets its POST
RECURSIVE FanOut(_, _, _, _, _, _, _)
FanOut(s, config, chainId, resolver, path, b, i) ==
    IF s > Len(config.services)
    THEN [posts |-> << >>, log |-> {}, threw |-> FALSE, resolved |-> << >>]
    ELSE LET service == config.services[s]
             targetId == IF service.type = "string" THEN service.value
                         ELSE service.targetId
             meta == IF service.type = "string" THEN Undefined ELSE service.meta
             host == resolver[targetId, meta]
             url == NewURL(path, host)
             rest == FanOut(s + 1, config, chainId, resolver, path, b, i)
         IN  [posts |-> (IF Truthy(host) /\ ~url.threw
                         THEN << [url |-> url.href,
                                  body |-> [chainId |-> chainId, remoteConfigs |-> config],
                                  status |-> "pending", bcast |-> b, stage |-> i] >>
                         ELSE << >>) \o rest.posts,
              log |-> (IF ~Truthy(host) THEN {Entry("warn", "NoAddress", b, i)}
                       ELSE IF url.threw THEN {Entry("error", "SetupRequestError", b, i)}
                       ELSE {}) \cup rest.log,
              threw |-> FALSE,
              resolved |-> << [stage |-> i, targetId |-> targetId, meta |-> meta] >>
                              \o rest.resolved]

SetupStageFanOut(config, chainId, resolver, path, b, i) ==
    IF Len(config.services) = 0
    THEN [posts |-> << >>, log |-> {Entry("warn", "EmptyServices", b, i)}, threw |-> FALSE,
          resolved |-> << >>]
    ELSE FanOut(1, config, chainId, resolver, path, b, i)

\* one iteration of the loop over message.chain.config; resolved lists the
\* calls of the host resolver
SetupStage(config, chainId, resolver, path, b, i) ==
    IF Len(config.services) = 0
    THEN [posts |-> << >>, log |-> {Entry("warn", "EmptyServices", b, i)}, threw |-> FALSE,
          resolved |-> << >>]
    ELSE LET service == config.services[1]
             targetId == TargetIdOf(service)
             meta == MetaOf(service)
             host == resolver[targetId, meta]
             resolved == << [stage |-> i, targetId |-> targetId, meta |-> meta] >>
         IN  IF ~Truthy(host)
             THEN [posts |-> << >>, log |-> {Entry("warn", "NoAddress", b, i)},
                   threw |-> FALSE, resolved |-> resolved]
             ELSE LET try == TrySetupPost(config, chainId, host, path, b, i)
                  IN  IF try.threw
                      THEN [posts |-> << >>,
                            log |-> {Entry("error", "SetupRequestError", b, i)},
                            threw |-> FALSE, resolved |-> resolved]
                      ELSE [posts |-> try.posts, log |-> {}, threw |-> FALSE,
                            resolved |-> resolved]

\* slip: the loop runs from the last stage to the first
RECURSIVE SetupFromLast(_, _, _, _, _, _)
SetupFromLast(i, configs, chainId, resolver, path, b) ==
    IF i > Len(configs)
    THEN [posts |-> << >>, log |-> {}, threw |-> FALSE, resolved |-> << >>]
    ELSE LET st == SetupStage(configs[i], chainId, resolver, path, b, i)
             rest == SetupFromLast(i + 1, configs, chainId, resolver, path, b)
         IN  [posts |-> rest.posts \o st.posts,
              log |-> st.log \cup rest.log,
              threw |-> FALSE,
              resolved |-> rest.resolved \o st.resolved]

RECURSIVE SetupFrom(_, _, _, _, _, _)
SetupFrom(i, configs, chainId, resolver, path, b) ==
    IF i > Len(configs)
    THEN [posts |-> << >>, log |-> {}, threw |-> FALSE, resolved |-> << >>]
    ELSE LET st == SetupStage(configs[i], chainId, resolver, path, b, i)
         IN  IF st.threw
             THEN st
             ELSE LET rest == SetupFrom(i + 1, configs, chainId, resolver, path, b)
                  IN  [posts |-> st.posts \o rest.posts,
                       log |-> st.log \cup rest.log,
                       threw |-> rest.threw,
                       resolved |-> st.resolved \o rest.resolved]

\* broadcastSetupCallback({message, hostResolver, path}); b is the position of
\* the message among the broadcasts
BroadcastSetupCallback(message, resolver, path, b) ==
    LET loop == SetupFrom(1, message.chain.config, message.chain.id, resolver, path, b)
    IN  [posts |-> loop.posts,
         log |-> {Entry("info", "BroadcastMessage", b, 0)} \cup loop.log,
         threw |-> loop.threw,
         resolved |-> loop.resolved]

-----------------------------------------------------------------------------
(* NodeSupervisor *)

RandomHex == {"0a1b2c3d", "ffffffff"}

\* `${this.uid}-${timestamp}-${randomUUID().slice(0, 8)}`
ChainId(uid, timestamp, hex) == << uid, timestamp, hex >>

IsLocal(config) == config.location = "local"
IsRemote(config) == config.location = "remote"
\* slip: the filter on location is forgotten
LocalConfigsUnfiltered(configs) == configs
LocalConfigs(configs) == SelectSeq(configs, IsLocal)
\* slip: compares with NodeType.EXTERNAL ('external') and never matches
IsExternal(config) == config.location = "external"
RemoteConfigsExternal(configs) == SelectSeq(configs, IsExternal)
RemoteConfigs(configs) == SelectSeq(configs, IsRemote)

\* slip: only the remote stages are put in the message
BroadcastMessageRemoteOnly(chainId, configs) ==
    LET remote == SelectSeq(configs, IsRemote)
    IN  [signal |-> "node_create",
         chain |-> [id |-> chainId,
                    config |-> [i \in 1..Len(remote) |->
                                   [services |-> remote[i].services]]]]

\* the message built by broadcastNodeCreationSignal
BroadcastMessage(chainId, configs) ==
    [signal |-> "node_create",
     chain |-> [id |-> chainId,
                config |-> [i \in 1..Len(configs) |->
                               [services |-> configs[i].services]]]]

\* Node ids still to be handed out to the startChain calls in flight
Reserved == LET Left[k \in 0..Len(calls)] ==
                    IF k = 0 THEN 0 ELSE Left[k - 1] + calls[k].left
            IN  Left[Len(calls)]

\* slip: `new Node()`, the dependencies are not handed to the Node
CreateNodeBare(dependencies) ==
    LET nodeId == nextNodeId
    IN  /\ nodes' = MapSet(nodes, nodeId, NewNode(nodeId, {}))
        /\ nextNodeId' = nextNodeId + 1
        /\ nodeMonitoring' = IF nodeMonitoring.attached
                              THEN AddNode(nodeMonitoring, nodeId)
                              ELSE nodeMonitoring
        /\ log' = log \cup {Entry("info", "NodeCreated", nodeId, 0)}

\* createNode(dependencies)
CreateNode(dependencies) ==
    LET nodeId == nextNodeId
    IN  /\ nodes' = MapSet(nodes, nodeId, NewNode(nodeId, dependencies))
        /\ nextNodeId' = nextNodeId + 1
        /\ nodeMonitoring' = IF nodeMonitoring.attached
                              THEN AddNode(nodeMonitoring, nodeId)
                              ELSE nodeMonitoring
        /\ log' = log \cup {Entry("info", "NodeCreated", nodeId, 0)}

\* slip: the Node is not taken out of the monitoring
DeleteNodeUnmonitored(nodeId) ==
    IF nodeId \in DOMAIN nodes
    THEN /\ nodes' = MapDelete(nodes, nodeId)
         /\ nodeMonitoring' = nodeMonitoring
         /\ log' = log \cup {Entry("info", "NodeDeleted", nodeId, 0)}
    ELSE /\ log' = log \cup {Entry("warn", "NodeNotFound", nodeId, 0)}
         /\ UNCHANGED << nodes, nodeMonitoring >>

\* slip: deleteNode without its test of this.nodes.has(nodeId)
DeleteNodeUntested(nodeId) ==
    /\ nodes' = MapDelete(nodes, nodeId)
    /\ nodeMonitoring' = IF nodeMonitoring.attached
                          THEN RemoveNode(nodeMonitoring, nodeId)
                          ELSE nodeMonitoring
    /\ log' = log \cup {Entry("info", "NodeDeleted", nodeId, 0)}

\* deleteNode(nodeId)
DeleteNode(nodeId) ==
    IF nodeId \in DOMAIN nodes
    THEN /\ nodes' = MapDelete(nodes, nodeId)
         /\ nodeMonitoring' = IF nodeMonitoring.attached
                               THEN RemoveNode(nodeMonitoring, nodeId)
                               ELSE nodeMonitoring
         /\ log' = log \cup {Entry("info", "NodeDeleted", nodeId, 0)}
    ELSE /\ log' = log \cup {Entry("warn", "NodeNotFound", nodeId, 0)}
         /\ UNCHANGED << nodes, nodeMonitoring >>

\* what broadcastFunction(message) does before its promise settles
Transport(function, message, resolver, b) ==
    CASE function = "noop" ->
            [posts |-> << >>, log |-> {}, settles |-> "fulfilled", resolved |-> << >>]
      [] function = "wired" ->
            LET cb == BroadcastSetupCallback(message, resolver, SetupPath, b)
            IN  [posts |-> cb.posts, log |-> cb.log,
                 settles |-> IF cb.threw THEN "rejected" ELSE "fulfilled",
                 resolved |-> cb.resolved]
      [] function = "failing" ->
            [posts |-> << >>, log |-> {}, settles |-> "rejected", resolved |-> << >>]

\* broadcastNodeCreationSignal up to its await, run for call k whose record
\* becomes c
BroadcastNodeCreationSignal(k, c, base) ==
    \E timestamp \in clock..MaxClock, hex \in RandomHex :
        LET chainId == ChainId(Uid, timestamp, hex)
            message == BroadcastMessage(chainId, chainConfig)
            b == Len(broadcasts) + 1
            t == Transport(broadcastFunction, message, hostResolver, b)
        IN  /\ broadcasts' = Append(broadcasts, message)
            /\ setupPosts' = setupPosts \o t.posts
            /\ log' = log \cup t.log
            /\ calls' = [base EXCEPT ![k] =
                            [c EXCEPT !.pc = "broadcasting", !.sent = @ + 1,
                                      !.bcast = b, !.sentConfig = chainConfig,
                                      !.transport = t.settles,
                                      !.resolved = t.resolved]]
            /\ clock' = timestamp
            /\ UNCHANGED << nodes, nextNodeId, nodeMonitoring >>

\* startChain after its loop over localConfigs
AfterLocalConfigs(k, c, base) ==
    IF c.remote > 0
    THEN BroadcastNodeCreationSignal(k, c, base)
    ELSE /\ calls' = [base EXCEPT ![k] = [c EXCEPT !.pc = "done", !.outcome = "resolved"]]
         /\ UNCHANGED << nodes, nextNodeId, nodeMonitoring, broadcasts, setupPosts, log,
                         clock >>

\* startChain() up to its first await
StartChain ==
    LET local == Len(LocalConfigs(chainConfig))
        remote == Len(RemoteConfigs(chainConfig))
        k == Len(calls) + 1
        c == [pc |-> "creating", config |-> chainConfig, local |-> local,
              remote |-> remote, left |-> local, created |-> {}, sent |-> 0,
              bcast |-> 0, sentConfig |-> << >>, transport |-> "none",
              resolved |-> << >>, outcome |-> "pending"]
    IN  /\ Len(calls) < MaxStarts
        /\ nextNodeId + Reserved + local - 1 <= MaxNodes
        /\ IF local > 0
           THEN /\ CreateNode({})
                /\ calls' = Append(calls, [c EXCEPT !.left = @ - 1,
                                                    !.created = {nextNodeId}])
                /\ UNCHANGED << broadcasts, setupPosts, clock >>
           ELSE AfterLocalConfigs(k, c, Append(calls, c))
        /\ UNCHANGED << chainConfig, broadcastFunction, hostResolver, unhandled, configured >>
        /\ UNCHANGED << remoteVars, reportVars, signalVars >>

\* startChain resumed after `await this.createNode()`
StartChainResume(k) ==
    LET c == calls[k]
    IN  /\ c.pc = "creating"
        /\ IF c.left > 0
           THEN /\ CreateNode({})
                /\ calls' = [calls EXCEPT ![k] =
                                [c EXCEPT !.left = @ - 1,
                                          !.created = @ \cup {nextNodeId}]]
                /\ UNCHANGED << broadcasts, setupPosts, clock >>
           ELSE AfterLocalConfigs(k, c, calls)
        /\ UNCHANGED << chainConfig, broadcastFunction, hostResolver, unhandled, configured >>
        /\ UNCHANGED << remoteVars, reportVars, signalVars >>

\* slip: the catch block undoes the local Nodes of the call
BroadcastSettledRollback(k) ==
    LET c == calls[k]
        failed == c.transport = "rejected"
    IN  /\ c.pc = "broadcasting"
        /\ log' = log \cup
                    { IF ~failed
                      THEN Entry("info", "Broadcasted", c.bcast, 0)
                      ELSE Entry("error", "BroadcastFailed", c.bcast, 0) }
        /\ nodes' = IF failed
                     THEN [x \in DOMAIN nodes \ c.created |-> nodes[x]]
                     ELSE nodes
        /\ calls' = [calls EXCEPT ![k] = [c EXCEPT !.pc = "done", !.outcome = "resolved"]]
        /\ UNCHANGED << chainConfig, nextNodeId, nodeMonitoring, broadcastFunction,
                        hostResolver, broadcasts, setupPosts, unhandled, clock, configured >>
        /\ UNCHANGED << remoteVars, reportVars, signalVars >>

\* how startChain settles once `await this.broadcastFunction(message)` has:
\* both branches of the try statement return normally
BroadcastOutcome(settles) == "resolved"

\* broadcastNodeCreationSignal resumed after `await this.broadcastFunction(message)`,
\* and startChain after it
BroadcastSettled(k) ==
    LET c == calls[k]
    IN  /\ c.pc = "broadcasting"
        /\ log' = log \cup
                    { IF c.transport = "fulfilled"
                      THEN Entry("info", "Broadcasted", c.bcast, 0)
                      ELSE Entry("error", "BroadcastFailed", c.bcast, 0) }
        /\ calls' = [calls EXCEPT ![k] =
                        [c EXCEPT !.pc = "done",
                                  !.outcome = BroadcastOutcome(c.transport)]]
        /\ UNCHANGED << chainConfig, nodes, nextNodeId, nodeMonitoring, broadcastFunction,
                        hostResolver, broadcasts, setupPosts, unhandled, clock, configured >>
        /\ UNCHANGED << remoteVars, reportVars, signalVars >>

\* a launched setup POST completes; its promise was discarded (`void post(...)`)
SetupPostSettles(p, status) ==
    /\ setupPosts[p].status = "pending"
    /\ setupPosts' = [setupPosts EXCEPT ![p].status = status]
    /\ unhandled' = IF status = "rejected" THEN unhandled \cup {p} ELSE unhandled
    /\ UNCHANGED << chainConfig, nodes, nextNodeId, nodeMonitoring, broadcastFunction,
                    hostResolver, calls, broadcasts, log, clock, configured >>
    /\ UNCHANGED << remoteVars, reportVars, signalVars >>

\* setChainConfig(config)
SetChainConfig(config) ==
    /\ configured < MaxConfigs
    /\ chainConfig' = config
    /\ configured' = configured + 1
    /\ UNCHANGED << nodes, nextNodeId, nodeMonitoring, broadcastFunction, hostResolver,
                    calls, broadcasts, setupPosts, log, unhandled, clock >>
    /\ UNCHANGED << remoteVars, reportVars, signalVars >>

\* setMonitoring(nodeMonitoring)
SetMonitoring ==
    /\ nodeMonitoring' = [NewMonitoring EXCEPT !.since = nextNodeId - 1]
    /\ UNCHANGED << chainConfig, nodes, nextNodeId, broadcastFunction, hostResolver,
                    calls, broadcasts, setupPosts, log, unhandled, clock, configured >>
    /\ UNCHANGED << remoteVars, reportVars, signalVars >>

\* payload.params of a NODE_CREATE: absent, or a list of Node ids
ParamsChoices ==
    << [defined |-> FALSE, value |-> {}], [defined |-> TRUE, value |-> {}],
       [defined |-> TRUE, value |-> {1}] >>

\* handleRequest({signal: NODE_CREATE, params})
NodeCreate(params) ==
    /\ nextNodeId + Reserved <= MaxNodes
    /\ CreateNode(IF params.defined THEN params.value ELSE {})
    /\ UNCHANGED << chainConfig, broadcastFunction, hostResolver, calls, broadcasts,
                    setupPosts, unhandled, clock, configured >>
    /\ UNCHANGED << remoteVars, reportVars, signalVars >>

\* handleRequest({signal: NODE_DELETE, id})
NodeDelete(id) ==
    /\ DeleteNode(id)
    /\ UNCHANGED << chainConfig, nextNodeId, broadcastFunction, hostResolver, calls,
                    broadcasts, setupPosts, unhandled, clock, configured >>
    /\ UNCHANGED << remoteVars, reportVars, signalVars >>

\* the wirings a process is started with
Wirings ==
    { << "noop", ResolverS2 >>, << "failing", ResolverS2 >> }
        \cup { << "wired", r >> : r \in Resolvers }

\* the state once the supervisor is constructed and its callbacks are wired
Init ==
    /\ chainConfig = << >>
    /\ nodes = << >>
    /\ nextNodeId = 1
    /\ nodeMonitoring = NoMonitoring
    /\ \E w \in Wirings : broadcastFunction = w[1] /\ hostResolver = w[2]
    /\ calls = << >>
    /\ broadcasts = << >>
    /\ setupPosts = << >>
    /\ log = {}
    /\ unhandled = {}
    /\ clock = 0
    /\ configured = 0
    /\ rscs = << >>
    /\ runPosts = << >>
    /\ monitoringHosts = << >>
    /\ monitoringResolver = "default"
    /\ brcs = << >>
    /\ notifyPosts = << >>
    /\ requests = << >>
    /\ detached = << >>

\* chain start, next to NODE_CREATE and NODE_DELETE signals
Next ==
    \/ StartChain
    \/ \E k \in 1..Len(calls) : StartChainResume(k)
    \/ \E k \in 1..Len(calls) : BroadcastSettled(k)
    \/ \E config \in ChainConfigs : SetChainConfig(config)
    \/ NodeCreate(ParamsChoices[1])
    \/ \E id \in 1..MaxNodes : NodeDelete(id)

Spec == Init /\ [][Next]_vars

-----------------------------------------------------------------------------
(* The default wiring at work: chain starts on a configured supervisor, and *)
(* the setup POSTs they launch completing                                   *)

InitSetup ==
    /\ chainConfig \in ChainConfigs
    /\ nodes = << >>
    /\ nextNodeId = 1
    /\ nodeMonitoring = NoMonitoring
    /\ broadcastFunction = "wired"
    /\ hostResolver \in Resolvers
    /\ calls = << >>
    /\ broadcasts = << >>
    /\ setupPosts = << >>
    /\ log = {}
    /\ unhandled = {}
    /\ clock = 0
    /\ configured = 1
    /\ rscs = << >>
    /\ runPosts = << >>
    /\ monitoringHosts = << >>
    /\ monitoringResolver = "default"
    /\ brcs = << >>
    /\ notifyPosts = << >>
    /\ requests = << >>
    /\ detached = << >>

NextSetup ==
    \/ StartChain
    \/ \E k \in 1..Len(calls) : StartChainResume(k)
    \/ \E k \in 1..Len(calls) : BroadcastSettled(k)
    \/ \E p \in 1..Len(setupPosts), status \in {"ok", "rejected"} :
          SetupPostSettles(p, status)

SpecSetup == InitSetup /\ [][NextSetup]_vars

-----------------------------------------------------------------------------
(* Vocabulary of the properties *)

CallIds == 1..Len(calls)
Returned(k) == calls[k].pc = "done"
PastLocalConfigs(k) == calls[k].pc \in {"broadcasting", "done"}
NumLocal(config) == Cardinality({i \in 1..Len(config) : config[i].location = "local"})
HasRemote(config) == \E i \in 1..Len(config) : config[i].location = "remote"
Deleted(id) == Entry("info", "NodeDeleted", id, 0) \in log
CreatedByCalls == UNION {calls[k].created : k \in CallIds}
PostsOf(b, i) ==
    {p \in 1..Len(setupPosts) : setupPosts[p].bcast = b /\ setupPosts[p].stage = i}

\* the host the resolver gives for the first service of a stage of a message
FirstHost(stage) ==
    LET s == stage.services[1]
    IN  IF s.type = "string" THEN hostResolver[s.value, Undefined]
        ELSE hostResolver[s.targetId, s.meta]
\* the stage has a first service and the resolver gives a base URL for it
Resolvable(stage) == Len(stage.services) > 0 /\ FirstHost(stage) \in {Peer1, Peer2}

-----------------------------------------------------------------------------
(* C1 *)

\* C1 as claimed: when every startChain call made so far was made for the
\* current chain config and has returned, and nothing but startChain has
\* touched the nodes map, the map holds exactly one Node per local stage.
C1_AsClaimed ==
    ( /\ Len(calls) >= 1
      /\ \A k \in CallIds : Returned(k) /\ calls[k].config = chainConfig
      /\ DOMAIN nodes = CreatedByCalls
      /\ CreatedByCalls = 1..(nextNodeId - 1) )
    => Cardinality(DOMAIN nodes) = NumLocal(chainConfig)

\* C1 (amended): every startChain call, once past its loop, has created exactly
\* one new Node per local stage of the chain config it was called on, whatever
\* the number of remote stages and the fate of the broadcast: the Nodes of two
\* calls are distinct, each is stored under its id unless a NODE_DELETE removed
\* it, and after the first call on a fresh supervisor the nodes map holds
\* exactly one Node per local stage.
C1_OneNodePerLocalStagePerCall ==
    /\ \A k \in CallIds :
          PastLocalConfigs(k) =>
            /\ Cardinality(calls[k].created) = NumLocal(calls[k].config)
            /\ \A id \in calls[k].created :
                  \/ id \in DOMAIN nodes /\ nodes[id].id = id
                  \/ Deleted(id)
    /\ \A j, k \in CallIds : j # k => calls[j].created \cap calls[k].created = {}
    /\ ( Len(calls) = 1 /\ PastLocalConfigs(1) /\ calls[1].created = 1..(nextNodeId - 1)
          /\ \A id \in 1..(nextNodeId - 1) : ~Deleted(id) )
       => Cardinality(DOMAIN nodes) = NumLocal(calls[1].config)

\* a second startChain for the same config has returned after a failed
\* broadcast, each call having created the Node of the one local stage
C1_Witness ==
    /\ Len(calls) = 2
    /\ \A k \in CallIds :
          /\ Returned(k) /\ calls[k].config = chainConfig
          /\ calls[k].transport = "rejected"
          /\ Cardinality(calls[k].created) = 1
    /\ NumLocal(chainConfig) = 1 /\ HasRemote(chainConfig)
    /\ DOMAIN nodes = {1, 2}

-----------------------------------------------------------------------------
(* C2 *)

\* C2: a startChain call hands a message to the broadcast transport if and only
\* if the chain config it was called on has a remote stage, and then exactly
\* one, carrying one chain id built from the uid, the time and a random
\* suffix; no other message is ever handed over.
C2_BroadcastIffRemote ==
    /\ \A k \in CallIds :
          /\ calls[k].sent \in {0, 1}
          /\ calls[k].sent = 1 => HasRemote(calls[k].config)
          /\ (PastLocalConfigs(k) /\ HasRemote(calls[k].config)) =>
                /\ calls[k].sent = 1
                /\ calls[k].bcast \in 1..Len(broadcasts)
                /\ broadcasts[calls[k].bcast].chain.id[1] = Uid
                /\ broadcasts[calls[k].bcast].chain.id[3] \in RandomHex
          /\ (Returned(k) /\ ~HasRemote(calls[k].config)) => calls[k].sent = 0
    /\ Cardinality({k \in CallIds : calls[k].sent = 1}) = Len(broadcasts)
    /\ \A j, k \in CallIds :
          (j # k /\ calls[j].sent = 1 /\ calls[k].sent = 1) => calls[j].bcast # calls[k].bcast

\* two calls on a config with a local and a remote stage have returned and
\* two messages, with different chain ids, have been handed over
C2_Witness ==
    /\ Len(calls) = 2 /\ Returned(1) /\ Returned(2)
    /\ \A k \in CallIds :
          HasRemote(calls[k].config) /\ NumLocal(calls[k].config) = 1 /\ calls[k].sent = 1
    /\ Len(broadcasts) = 2
    /\ broadcasts[1].chain.id # broadcasts[2].chain.id

-----------------------------------------------------------------------------
(* C3 *)

\* the startChain call that handed over message b
CallOf(b) == CHOOSE k \in CallIds : calls[k].sent = 1 /\ calls[k].bcast = b

\* C3 as claimed: no setup POST is issued for a stage whose location is local.
C3_AsClaimed ==
    \A p \in 1..Len(setupPosts) :
        calls[CallOf(setupPosts[p].bcast)].sentConfig[setupPosts[p].stage].location
            # "local"

\* C3 (amended): with the default wiring a startChain call causes setup POSTs
\* only if its chain config has a remote stage, and then one POST for exactly
\* those stages of the chain config, local or remote, that have a first service
\* which the host resolver resolves to a base URL; the POST goes to that URL's
\* setup path and carries the chain id of the message and the services of the
\* stage as remoteConfigs.  The location of a stage is not consulted.
C3_SetupPostsFollowResolver ==
    /\ \A p \in 1..Len(setupPosts) :
          /\ broadcastFunction = "wired"
          /\ \E k \in CallIds :
                /\ calls[k].sent = 1 /\ calls[k].bcast = setupPosts[p].bcast
                /\ HasRemote(calls[k].config)
                /\ setupPosts[p].stage \in 1..Len(calls[k].sentConfig)
    /\ \A k \in CallIds :
          calls[k].sent = 1 =>
            \A i \in 1..Len(calls[k].sentConfig) :
              LET stage == calls[k].sentConfig[i]
                  b == calls[k].bcast
              IN  /\ Cardinality(PostsOf(b, i)) =
                        IF broadcastFunction = "wired" /\ Resolvable(stage) THEN 1 ELSE 0
                  /\ \A p \in PostsOf(b, i) :
                        /\ setupPosts[p].url = << FirstHost(stage), SetupPath >>
                        /\ setupPosts[p].body.chainId = broadcasts[b].chain.id
                        /\ setupPosts[p].body.remoteConfigs =
                              [services |-> stage.services]

\* scenario S2: one local stage A, one remote stage B, the resolver maps only B,
\* to peer2: startChain has returned and exactly one setup POST was issued, to
\* peer2, with the services of the remote stage
C3_Witness ==
    /\ hostResolver = ResolverS2 /\ broadcastFunction = "wired"
    /\ Len(calls) = 1 /\ Returned(1)
    /\ calls[1].sentConfig = << [services |-> << Str("A") >>, location |-> "local"],
                                [services |-> << Str("B") >>, location |-> "remote"] >>
    /\ Len(setupPosts) = 1
    /\ setupPosts[1].url = << Peer2, SetupPath >>
    /\ setupPosts[1].body.remoteConfigs = [services |-> << Str("B") >>]
    /\ setupPosts[1].stage = 2

-----------------------------------------------------------------------------
(* C6 *)

\* C6: a failed broadcast rolls nothing back: once a startChain call whose
\* broadcast failed has returned, every Node it created, and every Node
\* created before or since, is still stored under its id, as created, unless a
\* NODE_DELETE signal removed it.
C6_FailedBroadcastKeepsNodes ==
    \A k \in CallIds :
        (Returned(k) /\ calls[k].transport = "rejected") =>
            /\ Entry("error", "BroadcastFailed", calls[k].bcast, 0) \in log
            /\ \A id \in 1..(nextNodeId - 1) :
                  \/ /\ id \in DOMAIN nodes
                     /\ nodes[id].id = id
                     /\ nodes[id].status = "pending"
                  \/ Deleted(id)

\* a call that created a Node for its local stage has returned after its
\* broadcast failed; an older Node and the Node of the call are in the map
C6_Witness ==
    \E k \in CallIds :
        /\ Returned(k) /\ calls[k].transport = "rejected"
        /\ calls[k].created = {2}
        /\ DOMAIN nodes = {1, 2}

-----------------------------------------------------------------------------
(* C7 *)

\* C7 as claimed: a startChain call whose broadcast transport failed ends with
\* an error outcome, unlike a call whose broadcast succeeded.
C7_AsClaimed ==
    \A k \in CallIds :
        (Returned(k) /\ calls[k].transport = "rejected") => calls[k].outcome = "rejected"

-----------------------------------------------------------------------------
(* C4 *)

MessageStages(b) == 1..Len(broadcasts[b].chain.config)
MessageStage(b, i) == broadcasts[b].chain.config[i]

\* the stage has no service, or the resolver gives nothing for its first one
Skipped(stage) == Len(stage.services) = 0 \/ FirstHost(stage) \in {Undefined, ""}

\* C4: of the stages of a message given to the broadcast-setup callback, one
\* with an empty services list or an unresolved first service gets no POST
\* (and a warning), and every stage whose first service resolves to a base URL
\* gets its one POST, wherever the skipped stages are.
C4_SkippedStagesOnlySkipThemselves ==
    \A b \in 1..Len(broadcasts) :
        \A i \in MessageStages(b) :
            /\ Skipped(MessageStage(b, i)) =>
                  /\ PostsOf(b, i) = {}
                  /\ \E e \in log : e.level = "warn" /\ e.a = b /\ e.b = i
            /\ Resolvable(MessageStage(b, i)) =>
                  /\ Cardinality(PostsOf(b, i)) = 1
                  /\ \A p \in PostsOf(b, i) :
                        setupPosts[p].body.remoteConfigs = MessageStage(b, i)

\* a message whose first stage is skipped and whose second stage got its POST
C4_Witness ==
    \E b \in 1..Len(broadcasts) :
        /\ Len(broadcasts[b].chain.config) = 2
        /\ Skipped(MessageStage(b, 1)) /\ PostsOf(b, 1) = {}
        /\ Resolvable(MessageStage(b, 2)) /\ Cardinality(PostsOf(b, 2)) = 1

-----------------------------------------------------------------------------
(* C5 *)

\* the setup POST of the stage failed: building the request threw, or the
\* POST was launched and rejected
SetupFailed(b, i) ==
    \/ /\ Len(MessageStage(b, i).services) > 0
       /\ Truthy(FirstHost(MessageStage(b, i)))
       /\ ~ValidBase(FirstHost(MessageStage(b, i)))
    \/ \E p \in PostsOf(b, i) : setupPosts[p].status = "rejected"

\* C5 as claimed: when the setup POST of a stage fails, at once or as a
\* rejected POST, the failure is logged for that stage, the callback does not
\* fail, and the later stages that resolve still get their POSTs.
C5_AsClaimed ==
    \A b \in 1..Len(broadcasts) :
        \A i \in MessageStages(b) :
            SetupFailed(b, i) =>
                /\ Entry("error", "SetupRequestError", b, i) \in log
                /\ calls[CallOf(b)].transport = "fulfilled"
                /\ \A j \in MessageStages(b) :
                      (j > i /\ Resolvable(MessageStage(b, j))) =>
                          Cardinality(PostsOf(b, j)) = 1

-----------------------------------------------------------------------------
(* remoteServiceCallback and NODE_SEND_DATA *)

MaxRemoteCalls == 2    \* invocations of the remote-service callback

RunPath == "/run"

ChainIds == {"ci-1-0a1b2c3d"}

\* CallbackPayload: {chainId, targetId, meta, data}
CallbackPayloads ==
    [chainId : ChainIds \cup {Undefined, ""}, targetId : {"A", "B", "Z"}, meta : Metas,
     data : {"42"}]

\* slip: the POST is launched and not awaited, as in broadcastSetupCallback
RemoteServiceCallbackDetached(cbPayload, resolver, path, r) ==
    LET host == resolver[cbPayload.targetId, cbPayload.meta]
        url == NewURL(path, host)
    IN  IF Truthy(cbPayload.chainId) /\ Truthy(host) /\ ~url.threw
        THEN [pc |-> "done", outcome |-> "fulfilled",
              posts |-> << [url |-> url.href, body |-> cbPayload,
                            status |-> "pending", rsc |-> r] >>,
              log |-> {Entry("info", "ServiceCallbackPayload", r, 0),
                       Entry("info", "SendingData", r, 0)}]
        ELSE [pc |-> "done", outcome |-> "MissingChainId", posts |-> << >>,
              log |-> {Entry("info", "ServiceCallbackPayload", r, 0),
                       Entry("error", "SendDataError", r, 0)}]

\* slip: the test of the chainId is left out
RemoteServiceCallbackUnchecked(cbPayload, resolver, path, r) ==
    LET host == resolver[cbPayload.targetId, cbPayload.meta]
        url == NewURL(path, host)
    IN  IF Truthy(host) /\ ~url.threw
        THEN [pc |-> "posting", outcome |-> "pending",
              posts |-> << [url |-> url.href, body |-> cbPayload,
                            status |-> "pending", rsc |-> r] >>,
              log |-> {Entry("info", "ServiceCallbackPayload", r, 0),
                       Entry("info", "SendingData", r, 0)}]
        ELSE [pc |-> "done",
              outcome |-> IF Truthy(host) THEN "InvalidUrl" ELSE "NoNextConnector",
              posts |-> << >>,
              log |-> {Entry("info", "ServiceCallbackPayload", r, 0),
                       Entry("error", "SendDataError", r, 0)}]

\* remoteServiceCallback({cbPayload, hostResolver, path}) up to its await; r is
\* the position of the invocation among the invocations.  An error thrown in
\* the try block is logged by the catch block and thrown again.
RemoteServiceCallback(cbPayload, resolver, path, r) ==
    LET raise(error) ==
            [pc |-> "done", outcome |-> error, posts |-> << >>,
             log |-> {Entry("info", "ServiceCallbackPayload", r, 0),
                      Entry("error", "SendDataError", r, 0)}]
    IN  IF ~Truthy(cbPayload.chainId)
        THEN raise("MissingChainId")
        ELSE LET nextConnectorUrl == resolver[cbPayload.targetId, cbPayload.meta]
             IN  IF ~Truthy(nextConnectorUrl)
                 THEN raise("NoNextConnector")
                 ELSE LET url == NewURL(path, nextConnectorUrl)
                      IN  IF url.threw
                          THEN raise("InvalidUrl")
                          ELSE [pc |-> "posting", outcome |-> "pending",
                                posts |-> << [url |-> url.href, body |-> cbPayload,
                                              status |-> "pending", rsc |-> r] >>,
                                log |-> {Entry("info", "ServiceCallbackPayload", r, 0),
                                         Entry("info", "SendingData", r, 0)}]

\* the callback installed by setResolverCallbacks is invoked with cbPayload by
\* caller (a Node id, or 0 for another caller) serving request (a position in
\* requests, or 0)
InvokeRemoteService(cbPayload, caller, request) ==
    LET r == Len(rscs) + 1
        cb == RemoteServiceCallback(cbPayload, hostResolver, RunPath, r)
    IN  [rsc |-> [payload |-> cbPayload, caller |-> caller, request |-> request,
                  pc |-> cb.pc, outcome |-> cb.outcome,
                  post |-> IF Len(cb.posts) = 0 THEN 0 ELSE Len(runPosts) + 1],
         posts |-> cb.posts,
         log |-> cb.log]

\* the remote-service callback called directly
RemoteServiceCall(cbPayload) ==
    LET inv == InvokeRemoteService(cbPayload, 0, 0)
    IN  /\ Len(rscs) < MaxRemoteCalls
        /\ rscs' = Append(rscs, inv.rsc)
        /\ runPosts' = runPosts \o inv.posts
        /\ log' = log \cup inv.log
        /\ UNCHANGED << signalVars, chainVars, nodes, hostResolver, reportVars >>

MaxRequests == 3    \* handleRequest invocations

\* what a handler did to the nodes map, its Nodes and the monitoring membership
Changed == nodes' # nodes \/ nodeMonitoring' # nodeMonitoring

\* a list of Node ids that a payload may carry in a field, or its absence
NoList == [defined |-> FALSE, value |-> {}]
List(ids) == [defined |-> TRUE, value |-> ids]

\* the NODE_RUN requests for the Node whose node.execute(data) has not settled
InFlight(id) ==
    { r \in 1..Len(requests) : /\ requests[r].signal = "node_run"
                                /\ requests[r].id = id
                                /\ requests[r].pc \in {"sleeping", "processing"} }

\* a handleRequest invocation: its payload's signal and id, whether the id was a
\* key of the nodes map, the status its Node then had and whether an execution
\* of that Node was in flight, where the invocation stands, how its promise
\* settled,
\* the Node id it resolved with (0: undefined), the data of a NODE_RUN, whether
\* the nodes map, a Node stored in it or the monitoring membership was changed
\* by it, and whether it invoked the broadcast transport, the remote-service
\* callback or the broadcast-reporting callback
Request(signal, id, found, pc, outcome, result, changed) ==
    [signal |-> signal, id |-> id, found |-> found,
     status |-> IF found THEN nodes[id].status ELSE Undefined,
     busy |-> InFlight(id) # {},
     pc |-> pc, outcome |-> outcome,
     result |-> result, data |-> Undefined, params |-> NoList,
     dependencies |-> NoList, changed |-> changed,
     called |-> (broadcasts' # broadcasts \/ rscs' # rscs \/ brcs' # brcs)]

\* Node.sendData has something to send
HasOutput(node) == node.status = "completed" /\ node.output # Undefined

\* the catch block of sendNodeData
SendFailed(nodeId) == Entry("error", "NodeExecutionFailed", nodeId, 0)

\* slip: sendNodeData without its try statement
SendOutcomeUncaught(error) == IF error THEN "rejected" ELSE "resolved"

\* how sendNodeData settles once `await node.sendData()` has: the catch block
\* logs the error and returns
SendOutcome(error) == "resolved"

\* handleRequest({signal: NODE_SEND_DATA, id}) up to the await of sendNodeData
NodeSendData(nodeId) ==
    LET q == Len(requests) + 1
        Req(found, pc, outcome) ==
            Request("node_send_data", nodeId, found, pc, outcome, 0, Changed)
    IN  /\ Len(requests) < MaxRequests
        /\ UNCHANGED << chainVars, nodes, hostResolver, reportVars, detached >>
        /\ IF nodeId \notin DOMAIN nodes
           THEN /\ log' = log \cup {Entry("warn", "NodeNotFound", nodeId, 0)}
                /\ UNCHANGED << remoteVars >>
                /\ requests' = Append(requests, Req(FALSE, "done", "resolved"))
           ELSE IF ~HasOutput(nodes[nodeId])
           THEN /\ log' = log \cup {SendFailed(nodeId)}
                /\ UNCHANGED << remoteVars >>
                /\ requests' = Append(requests, Req(TRUE, "done", SendOutcome(TRUE)))
           ELSE LET node == nodes[nodeId]
                    inv == InvokeRemoteService(
                               [chainId |-> node.chainId, targetId |-> node.nextTarget,
                                meta |-> node.meta, data |-> node.output], nodeId, q)
                IN  /\ Len(rscs) < MaxRemoteCalls
                    /\ rscs' = Append(rscs, inv.rsc)
                    /\ runPosts' = runPosts \o inv.posts
                    /\ log' = log \cup inv.log \cup
                                 (IF inv.rsc.pc = "done" THEN {SendFailed(nodeId)} ELSE {})
                    /\ requests' = Append(requests,
                                      IF inv.rsc.pc = "done"
                                      THEN Req(TRUE, "done", SendOutcome(TRUE))
                                      ELSE Req(TRUE, "sending", "pending"))

\* the POST of invocation r completes: remoteServiceCallback resumes after
\* `await post(url, data)`, then its caller
RunPostSettles(r, status) ==
    LET c == rscs[r]
        failed == status = "rejected"
    IN  /\ c.pc = "posting"
        /\ runPosts' = [runPosts EXCEPT ![c.post].status = status]
        /\ rscs' = [rscs EXCEPT ![r] =
                       [c EXCEPT !.pc = "done",
                                 !.outcome = IF failed THEN "PostRejected"
                                             ELSE "fulfilled"]]
        /\ log' = log \cup (IF failed THEN {Entry("error", "SendDataError", r, 0)} ELSE {})
                       \cup (IF failed /\ c.caller # 0 THEN {SendFailed(c.caller)} ELSE {})
        /\ nodes' = IF c.caller \in DOMAIN nodes /\ ~failed
                     THEN [nodes EXCEPT ![c.caller].output = Undefined]
                     ELSE nodes
        /\ requests' = IF c.request = 0 THEN requests
                        ELSE [requests EXCEPT ![c.request].pc = "done",
                                              ![c.request].outcome = SendOutcome(failed),
                                              ![c.request].changed = (nodes' # nodes)]
        /\ UNCHANGED << chainVars, hostResolver, reportVars, detached >>

\* a Node that has run: COMPLETED with its output, or not run yet
SendingNodes ==
    { [NewNode(1, {}) EXCEPT !.status = st[1], !.output = st[2], !.nextTarget = t,
                             !.chainId = c, !.meta = m] :
        st \in { << "completed", "42" >>, << "pending", Undefined >> },
        t \in {"B", "Z"}, c \in ChainIds \cup {Undefined}, m \in Metas }

InitRemote ==
    /\ chainConfig = << >>
    /\ \E n \in SendingNodes : nodes = << n >>
    /\ nextNodeId = 2
    /\ nodeMonitoring = NoMonitoring
    /\ broadcastFunction = "wired"
    /\ hostResolver \in Resolvers
    /\ calls = << >>
    /\ broadcasts = << >>
    /\ setupPosts = << >>
    /\ log = {}
    /\ unhandled = {}
    /\ clock = 0
    /\ configured = 0
    /\ rscs = << >>
    /\ runPosts = << >>
    /\ monitoringHosts = << >>
    /\ monitoringResolver = "default"
    /\ brcs = << >>
    /\ notifyPosts = << >>
    /\ requests = << >>
    /\ detached = << >>

NextRemote ==
    \/ \E cbPayload \in CallbackPayloads : RemoteServiceCall(cbPayload)
    \/ \E nodeId \in 1..MaxNodes : NodeSendData(nodeId)
    \/ \E r \in 1..Len(rscs), status \in {"ok", "rejected"} : RunPostSettles(r, status)

SpecRemote == InitRemote /\ [][NextRemote]_vars

-----------------------------------------------------------------------------
(* C8 *)

RscIds == 1..Len(rscs)
PostsOfRsc(r) == {p \in 1..Len(runPosts) : runPosts[p].rsc = r}
Raised(r) == rscs[r].pc = "done" /\ rscs[r].outcome # "fulfilled"
RscHost(r) == hostResolver[rscs[r].payload.targetId, rscs[r].payload.meta]

\* C8 as claimed: the callback fails with MissingChainId exactly when the
\* chainId of the payload is undefined.
C8_AsClaimed ==
    \A r \in RscIds :
        rscs[r].outcome = "MissingChainId" <=> rscs[r].payload.chainId = Undefined

\* C8 (amended): the callback fails with MissingChainId exactly when the chainId
\* of the payload is undefined or the empty string, and with NoNextConnector
\* exactly when the chainId is present and the resolver gives nothing for the
\* target; in both cases the error is logged and raised and no POST is issued.
\* A payload with a chainId and a target that resolves to a base URL gets
\* exactly one POST, to the run path of that URL, carrying the payload.
C8_RemoteServiceErrors ==
    \A r \in RscIds :
        LET c == rscs[r]
            missing == c.payload.chainId \in {Undefined, ""}
            unresolved == RscHost(r) \in {Undefined, ""}
        IN  /\ c.outcome = "MissingChainId" <=> missing
            /\ c.outcome = "NoNextConnector" <=> (~missing /\ unresolved)
            /\ c.outcome \in {"MissingChainId", "NoNextConnector"} =>
                  /\ Raised(r)
                  /\ PostsOfRsc(r) = {}
                  /\ Entry("error", "SendDataError", r, 0) \in log
            /\ (~missing /\ RscHost(r) \in {Peer1, Peer2}) =>
                  /\ PostsOfRsc(r) = {c.post}
                  /\ runPosts[c.post].url = << RscHost(r), RunPath >>
                  /\ runPosts[c.post].body = c.payload

\* one invocation failed for its empty chainId, another issued its POST
C8_Witness ==
    \E q, r \in RscIds :
        /\ rscs[q].payload.chainId = "" /\ rscs[q].outcome = "MissingChainId"
        /\ rscs[r].payload.chainId \in ChainIds /\ Cardinality(PostsOfRsc(r)) = 1

-----------------------------------------------------------------------------
(* C9 *)

\* C9: the hand-off POST is awaited: an invocation of the remote-service
\* callback is not over while its POST is pending; it ends well only if the
\* POST did, and a rejected POST is logged and raised to the caller.  When the
\* caller is the sendData of a Node, the supervisor logs the failure and the
\* Node keeps its status COMPLETED.
C9_HandOffAwaited ==
    \A r \in RscIds :
        LET c == rscs[r]
        IN  c.post # 0 =>
              /\ runPosts[c.post].status = "pending" <=> c.pc = "posting"
              /\ runPosts[c.post].status = "ok" <=> c.outcome = "fulfilled"
              /\ runPosts[c.post].status = "rejected" =>
                    /\ c.outcome = "PostRejected"
                    /\ Entry("error", "SendDataError", r, 0) \in log
                    /\ c.caller # 0 =>
                          /\ SendFailed(c.caller) \in log
                          /\ nodes[c.caller].status = "completed"

\* scenario S3: the POST of a Node's sendData was rejected; the Node is COMPLETED
C9_Witness ==
    \E r \in RscIds :
        /\ rscs[r].caller = 1 /\ rscs[r].outcome = "PostRejected"
        /\ runPosts[rscs[r].post].status = "rejected"
        /\ nodes[1].status = "completed" /\ nodes[1].nextTarget = "B"

-----------------------------------------------------------------------------
(* broadcastReportingCallback with the default monitoring resolver *)

MaxReports == 2    \* invocations of the broadcast-reporting callback

NotifyPath == "/notify"

ReportChainIds == {"ci-1-0a1b2c3d", "ci-2-ffffffff"}

\* BroadcastReportingMessage: {chainId, nodeId, status}
ReportingMessages ==
    [chainId : ReportChainIds, nodeId : {1}, status : {"in-progress", "completed"}]

\* the maps the Monitoring Agent may hold (its file is not part of the sources
\* at hand): no chain registered, or the first chain only
MonitoringMaps == { << >>, [c \in {"ci-1-0a1b2c3d"} |-> Peer1] }

\* MonitoringAgent.getRemoteMonitoringHost(chainId)
GetRemoteMonitoringHost(hosts, chainId) ==
    IF chainId \in DOMAIN hosts THEN hosts[chainId] ELSE Undefined

\* defaultMonitoringResolver(chainId): the error thrown on a miss is caught and
\* logged, and the function returns undefined
DefaultMonitoringResolver(hosts, chainId, r) ==
    LET monitoringHost == GetRemoteMonitoringHost(hosts, chainId)
    IN  IF monitoringHost # Undefined
        THEN [host |-> monitoringHost,
              log |-> {Entry("info", "ResolvingMonitoringHost", r, 0)}]
        ELSE [host |-> Undefined,
              log |-> {Entry("error", "MonitoringNotFound", r, 0)}]

\* a monitoringResolver given to setMonitoringCallbacks: a lookup that takes
\* its time (it "may be asynchronous") and knows the host of every chain
InjectedMonitoringResolver(chainId, r) == [host |-> Peer2, log |-> {}]

\* `monitoringResolver ?? defaultMonitoringResolver`
MonitoringResolver(resolver, hosts, chainId, r) ==
    IF resolver = "default"
    THEN DefaultMonitoringResolver(hosts, chainId, r)
    ELSE InjectedMonitoringResolver(chainId, r)

\* broadcastReportingCallback({message, path, monitoringResolver}) up to
\* `await monitoringResolver(message.chainId)`
BroadcastReporting(message) ==
    LET r == Len(brcs) + 1
        res == MonitoringResolver(monitoringResolver, monitoringHosts, message.chainId, r)
    IN  /\ Len(brcs) < MaxReports
        /\ brcs' = Append(brcs, [message |-> message, pc |-> "resolving",
                                  host |-> res.host, outcome |-> "pending", post |-> 0])
        /\ log' = log \cup res.log

\* the callback installed by setMonitoringCallbacks is invoked with message
BroadcastReportingCall(message) ==
        /\ BroadcastReporting(message)
        /\ UNCHANGED << signalVars, chainVars, nodes, hostResolver, remoteVars, monitoringHosts,
                        monitoringResolver, notifyPosts >>

\* the promise of the monitoring resolver of invocation r may settle now: the
\* default resolver never waits, so that its promises settle in the order of
\* the invocations; an injected lookup ends when it ends
ResolverSettles(r) ==
    monitoringResolver = "default" => \A q \in 1..(r - 1) : brcs[q].pc # "resolving"

\* broadcastReportingCallback resumed with the monitoring host: it builds the URL
\* (an error there is the callback's error) and launches the POST
BroadcastReportingResolved(r) ==
    LET c == brcs[r]
        url == NewURL(NotifyPath, c.host)
    IN  /\ c.pc = "resolving"
        /\ ResolverSettles(r)
        /\ IF url.threw
           THEN /\ brcs' = [brcs EXCEPT ![r] =
                              [c EXCEPT !.pc = "done", !.outcome = "InvalidUrl"]]
                /\ UNCHANGED notifyPosts
           ELSE /\ brcs' = [brcs EXCEPT ![r] =
                              [c EXCEPT !.pc = "posting",
                                        !.post = Len(notifyPosts) + 1]]
                /\ notifyPosts' = Append(notifyPosts,
                                         [url |-> url.href, body |-> c.message,
                                          status |-> "pending", brc |-> r])
        /\ UNCHANGED << signalVars, chainVars, nodes, hostResolver, log, remoteVars,
                        monitoringHosts, monitoringResolver >>

\* broadcastReportingCallback resumed after `await post(url, data)`
NotifyPostSettles(r, status) ==
    LET c == brcs[r]
    IN  /\ c.pc = "posting"
        /\ notifyPosts' = [notifyPosts EXCEPT ![c.post].status = status]
        /\ brcs' = [brcs EXCEPT ![r] =
                       [c EXCEPT !.pc = "done",
                                 !.outcome = IF status = "rejected" THEN "PostRejected"
                                             ELSE "fulfilled"]]
        /\ UNCHANGED << signalVars, chainVars, nodes, hostResolver, log, remoteVars,
                        monitoringHosts, monitoringResolver >>

InitReport ==
    /\ chainConfig = << >>
    /\ nodes = << >>
    /\ nextNodeId = 1
    /\ nodeMonitoring = NoMonitoring
    /\ broadcastFunction = "wired"
    /\ hostResolver = ResolverS2
    /\ calls = << >>
    /\ broadcasts = << >>
    /\ setupPosts = << >>
    /\ log = {}
    /\ unhandled = {}
    /\ clock = 0
    /\ configured = 0
    /\ rscs = << >>
    /\ runPosts = << >>
    /\ monitoringHosts \in MonitoringMaps
    /\ monitoringResolver = "default"
    /\ brcs = << >>
    /\ notifyPosts = << >>
    /\ requests = << >>
    /\ detached = << >>

NextReport ==
    \/ \E message \in ReportingMessages : BroadcastReportingCall(message)
    \/ \E r \in 1..Len(brcs) : BroadcastReportingResolved(r)
    \/ \E r \in 1..Len(brcs), status \in {"ok", "rejected"} :
          NotifyPostSettles(r, status)

SpecReport == InitReport /\ [][NextReport]_vars

-----------------------------------------------------------------------------
(* C10 *)

\* C10 as claimed: a report for a chain with no registered monitoring host is
\* dropped without harm: the miss is logged, no POST is issued, and the
\* callback ends without raising an error.
C10_AsClaimed ==
    \A r \in 1..Len(brcs) :
        (brcs[r].message.chainId \notin DOMAIN monitoringHosts /\ brcs[r].pc = "done") =>
            /\ Entry("error", "MonitoringNotFound", r, 0) \in log
            /\ brcs[r].post = 0
            /\ brcs[r].outcome = "fulfilled"

-----------------------------------------------------------------------------
(* The status changes of the Nodes reported through the broadcast-reporting  *)
(* callback                                                                  *)

\* the status changes of a Node (Node.updateStatus; its file is not part of the
\* sources at hand)
StatusChanges ==
    { << "pending", "in-progress" >>, << "in-progress", "completed" >>,
      << "in-progress", "failed" >> }

\* the status of Node nodeId changes and the change is reported at once: the
\* broadcast-reporting callback is invoked with the message of the change, and
\* nobody waits for its promise before the Node moves on
NodeStatusChange(nodeId, status) ==
    /\ nodeId \in DOMAIN nodes
    /\ << nodes[nodeId].status, status >> \in StatusChanges
    /\ nodes' = [nodes EXCEPT ![nodeId].status = status]
    /\ BroadcastReporting([chainId |-> nodes[nodeId].chainId, nodeId |-> nodeId,
                            status |-> status])
    /\ UNCHANGED << signalVars, chainVars, hostResolver, remoteVars, monitoringHosts,
                    monitoringResolver, notifyPosts >>

MonitoringResolvers == {"default", "injected"}

InitOrder ==
    /\ chainConfig = << >>
    /\ nodes = [id \in 1..MaxNodes |-> [NewNode(id, {}) EXCEPT !.chainId = "ci-1-0a1b2c3d"]]
    /\ nextNodeId = MaxNodes + 1
    /\ nodeMonitoring = NoMonitoring
    /\ broadcastFunction = "wired"
    /\ hostResolver = ResolverS2
    /\ calls = << >>
    /\ broadcasts = << >>
    /\ setupPosts = << >>
    /\ log = {}
    /\ unhandled = {}
    /\ clock = 0
    /\ configured = 0
    /\ rscs = << >>
    /\ runPosts = << >>
    /\ monitoringHosts = [c \in {"ci-1-0a1b2c3d"} |-> Peer1]
    /\ monitoringResolver \in MonitoringResolvers
    /\ brcs = << >>
    /\ notifyPosts = << >>
    /\ requests = << >>
    /\ detached = << >>

NextOrder ==
    \/ \E nodeId \in 1..MaxNodes, status \in {"in-progress", "completed", "failed"} :
          NodeStatusChange(nodeId, status)
    \/ \E r \in 1..Len(brcs) : BroadcastReportingResolved(r)
    \/ \E r \in 1..Len(brcs), status \in {"ok", "rejected"} :
          NotifyPostSettles(r, status)

SpecOrder == InitOrder /\ [][NextOrder]_vars

-----------------------------------------------------------------------------
(* C11 *)

\* C11 as claimed: of two status changes of one Node, the notify POST of the
\* earlier change is issued before the notify POST of the later one, however
\* the lookups of the monitoring resolver and the POSTs interleave.
C11_AsClaimed ==
    \A q, r \in 1..Len(brcs) :
        ( /\ q < r
          /\ brcs[q].message.nodeId = brcs[r].message.nodeId
          /\ brcs[r].post # 0 )
        => (brcs[q].post # 0 /\ brcs[q].post < brcs[r].post)

-----------------------------------------------------------------------------
(* handleRequest: the six signals and the others.  The operations of a Node  *)
(* (its file is not part of the sources at hand) are modelled from the       *)
(* specification's description of the Node.                                  *)

\* the status changes a Node accepts; pausing a paused Node changes nothing
LegalTransitions ==
    { << "pending", "in-progress" >>, << "in-progress", "completed" >>,
      << "in-progress", "failed" >>, << "pending", "paused" >>,
      << "in-progress", "paused" >>, << "paused", "paused" >>,
      << "paused", "pending" >> }

\* Node.updateStatus(status): an illegal change fails with InvalidTransition
UpdateStatus(node, status) ==
    IF << node.status, status >> \in LegalTransitions
    THEN [node |-> [node EXCEPT !.status = status], error |-> FALSE]
    ELSE [node |-> node, error |-> TRUE]

\* Node.setDelay(delay)
SetDelay(node, delay) == [node EXCEPT !.delay = delay]

\* the dependencies of the Node that are not COMPLETED Nodes
UnmetDependencies(node) ==
    { d \in node.dependencies : d \notin DOMAIN nodes \/ nodes[d].status # "completed" }

\* the Node object with this id: deleting a Node from the map does not end the
\* object while an execution holds it
NodeObject(nodeId) == IF nodeId \in DOMAIN nodes THEN nodes[nodeId] ELSE detached[nodeId]

\* the variables handleRequest never touches but through startChain
startVars == << chainConfig, broadcastFunction, hostResolver, calls, broadcasts,
                setupPosts, unhandled, clock, configured >>

\* SupervisorPayload: {signal, id, delay, data, params, dependencies}; an id
\* or a delay of 0 stands for a field that is absent
Payload(signal, id, delay, data, params, dependencies) ==
    [signal |-> signal, id |-> id, delay |-> delay, data |-> data, params |-> params,
     dependencies |-> dependencies]

SupervisorPayloads ==
    { Payload("node_create", 0, 0, Undefined, ps[1], ps[2]) :
        ps \in { << NoList, NoList >>, << NoList, List({1}) >>, << List({1}), NoList >>,
                  << List({}), NoList >> } }
    \cup { Payload(signal, id, 0, Undefined, NoList, NoList) :
             signal \in {"node_delete", "node_pause", "node_send_data"},
             id \in 1..MaxNodes }
    \cup { Payload("node_delay", id, 5, Undefined, NoList, NoList) : id \in 1..MaxNodes }
    \cup { Payload("node_run", id, 0, "42", NoList, NoList) : id \in 1..MaxNodes }
    \cup { Payload("bogus", 1, 0, Undefined, NoList, NoList) }

\* case NodeSignal.NODE_CREATE: return this.createNode(payload.params)
RequestCreate(payload) ==
    /\ nextNodeId + Reserved <= MaxNodes
    /\ CreateNode(IF payload.params.defined THEN payload.params.value ELSE {})
    /\ UNCHANGED << startVars, remoteVars, reportVars, detached >>
    /\ requests' = Append(requests,
                      [Request(payload.signal, payload.id, FALSE, "done", "resolved",
                               nextNodeId, Changed)
                          EXCEPT !.params = payload.params,
                                 !.dependencies = payload.dependencies])

\* slip: a Node that is IN_PROGRESS is not deleted
RequestDeleteIdle(payload) ==
    LET busy == payload.id \in DOMAIN nodes /\ nodes[payload.id].status = "in-progress"
    IN  /\ IF busy
           THEN /\ log' = log \cup {Entry("warn", "NodeBusy", payload.id, 0)}
                /\ UNCHANGED << nodes, nodeMonitoring, detached >>
           ELSE /\ DeleteNode(payload.id)
                /\ detached' = IF payload.id \in DOMAIN nodes
                                THEN MapSet(detached, payload.id, nodes[payload.id])
                                ELSE detached
        /\ UNCHANGED << startVars, nextNodeId, remoteVars, reportVars >>
        /\ requests' = Append(requests,
                          Request(payload.signal, payload.id, payload.id \in DOMAIN nodes,
                                  "done", "resolved", 0, Changed))

\* case NodeSignal.NODE_DELETE: return this.deleteNode(payload.id)
RequestDelete(payload) ==
    /\ DeleteNode(payload.id)
    /\ detached' = IF payload.id \in DOMAIN nodes
                    THEN MapSet(detached, payload.id, nodes[payload.id])
                    ELSE detached
    /\ UNCHANGED << startVars, nextNodeId, remoteVars, reportVars >>
    /\ requests' = Append(requests,
                      Request(payload.signal, payload.id, payload.id \in DOMAIN nodes,
                              "done", "resolved", 0, Changed))

\* case NodeSignal.NODE_PAUSE: return this.pauseNode(payload.id)
RequestPause(payload) ==
    LET nodeId == payload.id
        found == nodeId \in DOMAIN nodes
        Req(outcome) ==
            Request(payload.signal, nodeId, found, "done", outcome, 0, Changed)
    IN  /\ UNCHANGED << startVars, nextNodeId, nodeMonitoring, remoteVars, reportVars,
                        detached >>
        /\ IF found
           THEN LET u == UpdateStatus(nodes[nodeId], "paused")
                IN  /\ nodes' = [nodes EXCEPT ![nodeId] = u.node]
                    /\ log' = IF u.error THEN log
                               ELSE log \cup {Entry("info", "NodePaused", nodeId, 0)}
                    /\ requests' = Append(requests,
                                      Req(IF u.error THEN "rejected" ELSE "resolved"))
           ELSE /\ log' = log \cup {Entry("warn", "NodeNotFound", nodeId, 0)}
                /\ nodes' = nodes
                /\ requests' = Append(requests, Req("resolved"))

\* case NodeSignal.NODE_DELAY: return this.delayNode(payload.id, payload.delay)
RequestDelay(payload) ==
    LET nodeId == payload.id
        found == nodeId \in DOMAIN nodes
    IN  /\ UNCHANGED << startVars, nextNodeId, nodeMonitoring, remoteVars, reportVars,
                        detached >>
        /\ IF found
           THEN /\ nodes' = [nodes EXCEPT ![nodeId] = SetDelay(@, payload.delay)]
                /\ log' = log \cup {Entry("info", "NodeDelayed", nodeId, payload.delay)}
           ELSE /\ log' = log \cup {Entry("warn", "NodeNotFound", nodeId, 0)}
                /\ nodes' = nodes
        /\ requests' = Append(requests,
                          Request(payload.signal, nodeId, found, "done", "resolved",
                                  0, Changed))

\* case NodeSignal.NODE_RUN: return await this.runNode(payload.id, payload.data),
\* up to the first await of node.execute(data): a paused Node and a Node with
\* unmet dependencies refuse; the others sleep their delay
RequestRun(payload) ==
    LET nodeId == payload.id
        found == nodeId \in DOMAIN nodes
        Req(pc, outcome) ==
            [Request(payload.signal, nodeId, found, pc, outcome, 0, Changed)
                EXCEPT !.data = payload.data]
    IN  /\ UNCHANGED << startVars, nodes, nextNodeId, nodeMonitoring, remoteVars,
                        reportVars, detached >>
        /\ IF found
           THEN IF nodes[nodeId].status = "paused" \/ UnmetDependencies(nodes[nodeId]) # {}
                THEN /\ requests' = Append(requests, Req("done", "rejected"))
                     /\ log' = log
                ELSE /\ requests' = Append(requests, Req("sleeping", "pending"))
                     /\ log' = log
           ELSE /\ log' = log \cup {Entry("warn", "NodeNotFound", nodeId, 0)}
                /\ requests' = Append(requests, Req("done", "resolved"))

\* slip: the default case throws
RequestUnknownThrows(payload) ==
    /\ log' = log \cup {Entry("warn", "UnknownSignal", 0, 0)}
    /\ UNCHANGED << startVars, nodes, nextNodeId, nodeMonitoring, remoteVars, reportVars,
                    detached >>
    /\ requests' = Append(requests,
                      Request(payload.signal, payload.id, payload.id \in DOMAIN nodes,
                              "done", "rejected", 0, Changed))

\* default: Logger.warn(`Unknown signal received: ...`)
RequestUnknown(payload) ==
    /\ log' = log \cup {Entry("warn", "UnknownSignal", 0, 0)}
    /\ UNCHANGED << startVars, nodes, nextNodeId, nodeMonitoring, remoteVars, reportVars,
                    detached >>
    /\ requests' = Append(requests,
                      Request(payload.signal, payload.id, payload.id \in DOMAIN nodes,
                              "done", "resolved", 0, Changed))

\* handleRequest(payload)
HandleRequest(payload) ==
    /\ Len(requests) < MaxRequests
    /\ CASE payload.signal = "node_create" -> RequestCreate(payload)
         [] payload.signal = "node_delete" -> RequestDelete(payload)
         [] payload.signal = "node_pause" -> RequestPause(payload)
         [] payload.signal = "node_delay" -> RequestDelay(payload)
         [] payload.signal = "node_run" -> RequestRun(payload)
         [] payload.signal = "node_send_data" -> NodeSendData(payload.id)
         [] OTHER -> RequestUnknown(payload)

\* the Node object is written back where it lives
StoreNode(nodeId, node) ==
    IF nodeId \in DOMAIN nodes
    THEN nodes' = [nodes EXCEPT ![nodeId] = node] /\ detached' = detached
    ELSE detached' = [detached EXCEPT ![nodeId] = node] /\ nodes' = nodes

\* node.execute(data) resumed after its delay: the Node becomes IN_PROGRESS and
\* its processors are started
ExecuteStarts(q) ==
    LET c == requests[q]
        u == UpdateStatus(NodeObject(c.id), "in-progress")
    IN  /\ c.signal = "node_run" /\ c.pc = "sleeping"
        /\ StoreNode(c.id, u.node)
        /\ requests' = [requests EXCEPT ![q] =
                           IF u.error
                           THEN [c EXCEPT !.pc = "done", !.outcome = "rejected"]
                           ELSE [c EXCEPT !.pc = "processing"]]
        /\ UNCHANGED << startVars, nextNodeId, nodeMonitoring, log, remoteVars,
                        reportVars >>

\* node.execute(data) resumed after its processors: the output is stored and the
\* Node becomes COMPLETED, or a processor raised and the Node becomes FAILED;
\* runNode and handleRequest settle as execute did
ExecuteEnds(q, raised) ==
    LET c == requests[q]
        node == NodeObject(c.id)
        u == IF raised THEN UpdateStatus(node, "failed")
             ELSE UpdateStatus([node EXCEPT !.output = c.data], "completed")
    IN  /\ c.signal = "node_run" /\ c.pc = "processing"
        /\ StoreNode(c.id, u.node)
        /\ requests' = [requests EXCEPT ![q] =
                           [c EXCEPT !.pc = "done",
                                     !.outcome = IF raised \/ u.error THEN "rejected"
                                                 ELSE "resolved"]]
        /\ UNCHANGED << startVars, nextNodeId, nodeMonitoring, log, remoteVars,
                        reportVars >>

\* a supervisor with a NodeMonitoring attached at its start, with no Node yet
\* or with the one Node of a chain
InitSignals ==
    /\ chainConfig = << >>
    /\ nodes \in { << >>,
                    << [NewNode(1, {}) EXCEPT !.chainId = "ci-1-0a1b2c3d",
                                              !.nextTarget = "B"] >> }
    /\ nextNodeId = Len(nodes) + 1
    /\ nodeMonitoring = [NewMonitoring EXCEPT !.members = DOMAIN nodes]
    /\ broadcastFunction = "wired"
    /\ hostResolver = ResolverS2
    /\ calls = << >>
    /\ broadcasts = << >>
    /\ setupPosts = << >>
    /\ log = {}
    /\ unhandled = {}
    /\ clock = 0
    /\ configured = 0
    /\ rscs = << >>
    /\ runPosts = << >>
    /\ monitoringHosts = << >>
    /\ monitoringResolver = "default"
    /\ brcs = << >>
    /\ notifyPosts = << >>
    /\ requests = << >>
    /\ detached = << >>

NextSignals ==
    \/ \E payload \in SupervisorPayloads : HandleRequest(payload)
    \/ \E q \in 1..Len(requests) : ExecuteStarts(q)
    \/ \E q \in 1..Len(requests), raised \in BOOLEAN : ExecuteEnds(q, raised)
    \/ \E r \in 1..Len(rscs), status \in {"ok", "rejected"} : RunPostSettles(r, status)

SpecSignals == InitSignals /\ [][NextSignals]_vars

-----------------------------------------------------------------------------
(* C12 *)

RequestIds == 1..Len(requests)
AddressedSignals ==
    {"node_delete", "node_pause", "node_delay", "node_run", "node_send_data"}

\* C12: a NODE_DELETE, NODE_PAUSE, NODE_DELAY, NODE_RUN or NODE_SEND_DATA for an
\* id that is not a key of the nodes map changes neither the map nor the
\* monitoring membership, raises no error and only warns that the Node was not
\* found; a NODE_DELETE of an id that was deleted before finds it unknown, so
\* that deleting twice leaves what deleting once left.
C12_UnknownIdIsNoOp ==
    /\ \A q \in RequestIds :
          (requests[q].signal \in AddressedSignals /\ ~requests[q].found) =>
              /\ requests[q].pc = "done"
              /\ requests[q].outcome = "resolved"
              /\ ~requests[q].changed
              /\ Entry("warn", "NodeNotFound", requests[q].id, 0) \in log
    /\ \A p, q \in RequestIds :
          ( /\ p < q
            /\ requests[p].signal = "node_delete" /\ requests[q].signal = "node_delete"
            /\ requests[p].found
            /\ requests[p].id = requests[q].id )
          => (~requests[q].found /\ ~requests[q].changed)

\* Node 1 was deleted, deleted again, and then paused: the second and the
\* third request found nothing; the map and the monitoring are empty
C12_Witness ==
    /\ Len(requests) = 3
    /\ requests[1].signal = "node_delete" /\ requests[1].id = 1 /\ requests[1].found
    /\ requests[1].changed
    /\ requests[2].signal = "node_delete" /\ requests[2].id = 1 /\ ~requests[2].found
    /\ requests[3].signal = "node_pause" /\ requests[3].id = 1 /\ ~requests[3].found
    /\ DOMAIN nodes = {} /\ nodeMonitoring.members = {}

-----------------------------------------------------------------------------
(* C13 *)

\* NodeSignal.Type
NodeSignals ==
    {"node_create", "node_delete", "node_pause", "node_delay", "node_run",
     "node_send_data"}

\* C13: a handleRequest whose signal is none of the six NODE_* signals returns
\* normally, with no value; it changes neither the nodes map nor a Node nor
\* the monitoring membership, invokes no broadcast, remote-service or
\* reporting callback, and only warns.
C13_UnknownSignalIsNoOp ==
    \A q \in RequestIds :
        requests[q].signal \notin NodeSignals =>
            /\ requests[q].pc = "done"
            /\ requests[q].outcome = "resolved"
            /\ requests[q].result = 0
            /\ ~requests[q].changed
            /\ ~requests[q].called
            /\ Entry("warn", "UnknownSignal", 0, 0) \in log

\* scenario S6: a request with the signal "bogus" has returned on a supervisor
\* that holds a Node, while an execution of that Node is in flight
C13_Witness ==
    \E p, q \in RequestIds :
        /\ requests[q].signal = "bogus" /\ requests[q].pc = "done"
        /\ p < q /\ requests[p].signal = "node_run" /\ requests[p].pc = "sleeping"
        /\ requests[p].id \in DOMAIN nodes

-----------------------------------------------------------------------------
(* C14 *)

CreateRequests == {q \in RequestIds : requests[q].signal = "node_create"}
ListOf(field) == IF field.defined THEN field.value ELSE {}

\* C14 as claimed: the Node created by a NODE_CREATE whose payload carries its
\* input in the `dependencies` field has exactly the dependencies of that field.
C14_AsClaimed ==
    \A q \in CreateRequests :
        ~requests[q].params.defined =>
            NodeObject(requests[q].result).dependencies =
                ListOf(requests[q].dependencies)

\* C14 (amended): a NODE_CREATE creates and registers one new Node whose
\* dependencies are exactly the list in the `params` field of the payload, or
\* none when the payload has no `params`, whatever its `dependencies` field;
\* it returns the id of that Node, under which the Node is stored in the nodes
\* map until a NODE_DELETE removes it.
C14_CreateTakesParams ==
    /\ \A q \in CreateRequests :
          LET id == requests[q].result
          IN  /\ requests[q].pc = "done" /\ requests[q].outcome = "resolved"
              /\ requests[q].changed
              /\ id \in 1..(nextNodeId - 1)
              /\ id \in DOMAIN nodes \/ Deleted(id)
              /\ NodeObject(id).id = id
              /\ NodeObject(id).dependencies = ListOf(requests[q].params)
    /\ \A p, q \in CreateRequests : p # q => requests[p].result # requests[q].result

\* a NODE_CREATE with the list [1] in `params` has returned the id 2, and the
\* Node stored under 2 depends on Node 1; another, with no `params`, gave a
\* Node without dependencies
C14_Witness ==
    \E p, q \in CreateRequests :
        /\ requests[q].params = List({1}) /\ requests[q].result = 2
        /\ 2 \in DOMAIN nodes /\ nodes[2].dependencies = {1}
        /\ ~requests[p].params.defined /\ requests[p].result = 1
        /\ 1 \in DOMAIN nodes /\ nodes[1].dependencies = {}

-----------------------------------------------------------------------------
(* C15 *)

\* the NODE_DELETE requests that found their Node IN_PROGRESS
DeletesInProgress ==
    { d \in RequestIds : /\ requests[d].signal = "node_delete"
                          /\ requests[d].found
                          /\ requests[d].status = "in-progress" }

\* C15: a NODE_DELETE for a Node that is IN_PROGRESS is carried out at once: the
\* id leaves the nodes map and the monitoring, for good.  The execution in
\* flight is not stopped: when its NODE_RUN resolves, the Node object it holds
\* is COMPLETED with the output of the run.  Every later NODE_PAUSE,
\* NODE_DELAY, NODE_RUN or NODE_SEND_DATA for the id finds no Node, changes
\* nothing and only warns, and no output of that Node is handed to the
\* remote-service callback after the deletion.
C15_DeleteWhileInProgress ==
    \A d \in DeletesInProgress :
        LET id == requests[d].id
        IN  /\ requests[d].pc = "done" /\ requests[d].outcome = "resolved"
            /\ requests[d].changed
            /\ id \notin DOMAIN nodes
            /\ id \notin nodeMonitoring.members
            /\ \A r \in 1..(d - 1) :
                  ( /\ requests[r].signal = "node_run" /\ requests[r].id = id
                    /\ requests[r].pc = "done" /\ requests[r].outcome = "resolved"
                    /\ requests[r].found )
                  => /\ detached[id].status = "completed"
                     /\ detached[id].output = requests[r].data
            /\ \A q \in (d + 1)..Len(requests) :
                  (requests[q].id = id /\ requests[q].signal \in AddressedSignals) =>
                      /\ ~requests[q].found
                      /\ requests[q].pc = "done" /\ requests[q].outcome = "resolved"
                      /\ ~requests[q].changed /\ ~requests[q].called
                      /\ Entry("warn", "NodeNotFound", id, 0) \in log
            /\ \A r \in 1..Len(rscs) : rscs[r].caller = id => rscs[r].request < d

\* Node 1 was deleted while its NODE_RUN was in its processors; the run then
\* resolved, leaving the deleted Node COMPLETED with its output, and a later
\* NODE_SEND_DATA for the id found no Node
C15_Witness ==
    /\ Len(requests) = 3
    /\ requests[1].signal = "node_run" /\ requests[1].id = 1
    /\ requests[1].pc = "done" /\ requests[1].outcome = "resolved"
    /\ 2 \in DeletesInProgress /\ requests[2].id = 1
    /\ requests[3].signal = "node_send_data" /\ requests[3].id = 1
    /\ ~requests[3].found
    /\ detached[1].status = "completed" /\ detached[1].output = "42"
    /\ rscs = << >>

-----------------------------------------------------------------------------
(* C16 *)

\* C16 as claimed: a Node has at most one execution in flight, and a NODE_PAUSE
\* or NODE_DELAY that arrives while an execution of its Node is suspended
\* does not change the Node under that execution.
C16_AsClaimed ==
    /\ \A id \in 1..MaxNodes : Cardinality(InFlight(id)) <= 1
    /\ \A q \in RequestIds :
          (requests[q].signal \in {"node_pause", "node_delay"} /\ requests[q].busy) =>
              ~requests[q].changed

-----------------------------------------------------------------------------
(* C17 *)

\* the calls of the host resolver made for stage i by the callback run for
\* call k
ResolverCalls(k, i) ==
    { j \in 1..Len(calls[k].resolved) : calls[k].resolved[j].stage = i }

\* C17: the broadcast-setup callback issues at most one POST per stage and
\* calls the host resolver at most once per stage, with the targetId and the
\* meta of the first service entry (a bare id has no meta); the POST goes to
\* the host given for that entry.  Further entries of the stage cause no
\* resolver call and no POST, and the callback does not fail.
C17_FirstServiceOnly ==
    \A k \in CallIds :
        calls[k].sent = 1 =>
            /\ calls[k].transport = "fulfilled"
            /\ \A i \in MessageStages(calls[k].bcast) :
                  LET stage == MessageStage(calls[k].bcast, i)
                      first == stage.services[1]
                  IN  /\ Cardinality(PostsOf(calls[k].bcast, i)) <= 1
                      /\ Cardinality(ResolverCalls(k, i)) =
                            IF Len(stage.services) = 0 THEN 0 ELSE 1
                      /\ \A j \in ResolverCalls(k, i) :
                            /\ calls[k].resolved[j].targetId =
                                  (IF first.type = "string" THEN first.value
                                   ELSE first.targetId)
                            /\ calls[k].resolved[j].meta =
                                  (IF first.type = "string" THEN Undefined
                                   ELSE first.meta)
                      /\ \A p \in PostsOf(calls[k].bcast, i) :
                            setupPosts[p].url = << FirstHost(stage), SetupPath >>

\* a stage with the services [{targetId: B, meta: m1}, A], both of which the
\* resolver resolves, got one POST, to the host of {B, m1}, after one call of
\* the resolver
C17_Witness ==
    \E k \in CallIds :
        /\ calls[k].sent = 1 /\ hostResolver = ResolverAll
        /\ \E i \in MessageStages(calls[k].bcast) :
              /\ MessageStage(calls[k].bcast, i).services = << Obj("B", "m1"), Str("A") >>
              /\ Cardinality(PostsOf(calls[k].bcast, i)) = 1
              /\ \A p \in PostsOf(calls[k].bcast, i) :
                    setupPosts[p].url = << Peer1, SetupPath >>
              /\ Cardinality(ResolverCalls(k, i)) = 1

-----------------------------------------------------------------------------
(* C18 *)

PostsOfBroadcast(b) == {p \in 1..Len(setupPosts) : setupPosts[p].bcast = b}

\* C18: the message of a broadcast lists the stages of the chain config in
\* their order, each with its services and nothing else; the setup POSTs of
\* the broadcast are launched by increasing stage index; and each of them
\* carries the chain id of the message.
C18_DeclaredOrderOneChainId ==
    \A k \in CallIds :
        calls[k].sent = 1 =>
            LET b == calls[k].bcast
                config == broadcasts[b].chain.config
            IN  /\ Len(config) = Len(calls[k].sentConfig)
                /\ \A i \in 1..Len(config) :
                      config[i] = [services |-> calls[k].sentConfig[i].services]
                /\ \A p, q \in PostsOfBroadcast(b) :
                      p < q => setupPosts[p].stage < setupPosts[q].stage
                /\ \A p \in PostsOfBroadcast(b) :
                      setupPosts[p].body.chainId = broadcasts[b].chain.id

\* a broadcast for two stages with different services, each of which got its
\* POST: the POST of stage 1 was launched first, and both carry one chain id
C18_Witness ==
    \E b \in 1..Len(broadcasts) :
        \E p, q \in PostsOfBroadcast(b) :
            /\ p < q /\ setupPosts[p].stage = 1 /\ setupPosts[q].stage = 2
            /\ MessageStage(b, 1) # MessageStage(b, 2)
            /\ setupPosts[p].body.chainId = setupPosts[q].body.chainId
            /\ setupPosts[p].url # setupPosts[q].url

-----------------------------------------------------------------------------
(* A supervisor to which a NodeMonitoring may be attached at any time *)

InitMonitored ==
    /\ Init
    /\ broadcastFunction = "wired" /\ hostResolver = ResolverS2

NextMonitored ==
    \/ SetMonitoring
    \/ Next

SpecMonitored == InitMonitored /\ [][NextMonitored]_vars

-----------------------------------------------------------------------------
(* C19 *)

\* C19: while the NodeMonitoring attached to the supervisor is one that was
\* attached before any Node was created, the ids it holds (added and not
\* removed) are the keys of the nodes map, whatever NODE_CREATE, NODE_DELETE
\* and startChain did; and every key of the nodes map is the id of the Node
\* stored under it.
C19_MonitoringFollowsNodes ==
    /\ (nodeMonitoring.attached /\ nodeMonitoring.since = 0) =>
           nodeMonitoring.members = DOMAIN nodes
    /\ \A id \in DOMAIN nodes : nodes[id].id = id

\* the monitoring was attached first; a NODE_CREATE made Node 1, a startChain
\* made Node 2, and Node 1 was deleted: the monitoring holds Node 2 only
C19_Witness ==
    /\ nodeMonitoring.attached /\ nodeMonitoring.since = 0
    /\ Deleted(1) /\ 2 \in CreatedByCalls
    /\ DOMAIN nodes = {2} /\ nodeMonitoring.members = {2}

-----------------------------------------------------------------------------
(* C20 *)

SendRequests == { q \in 1..Len(requests) : requests[q].signal = "node_send_data" }
RscsOfRequest(q) == { r \in RscIds : rscs[r].request = q }

\* the sendData of request q failed: it had nothing to send, or the downstream
\* delivery callback raised
SendDataFailed(q) ==
    /\ requests[q].found
    /\ requests[q].pc = "done"
    /\ \/ RscsOfRequest(q) = {}
       \/ \E r \in RscsOfRequest(q) : Raised(r)

\* C20: no handleRequest of a NODE_SEND_DATA signal ends with an error: it is
\* over exactly when the delivery it started, if any, is over; and when the
\* sendData of the Node failed (nothing to send, or the downstream delivery
\* callback raised, at once or after its POST was rejected) the supervisor has
\* logged the failure for that Node, the invocation has completed normally and
\* it has left the nodes map and its Nodes as they were.
C20_SendFailureContained ==
    \A q \in SendRequests :
        /\ requests[q].outcome # "rejected"
        /\ requests[q].pc = "done" <=> requests[q].outcome = "resolved"
        /\ requests[q].pc # "done" =>
              \E r \in RscsOfRequest(q) : rscs[r].pc = "posting"
        /\ SendDataFailed(q) =>
              /\ requests[q].outcome = "resolved"
              /\ SendFailed(requests[q].id) \in log
              /\ ~requests[q].changed
              /\ requests[q].id \in DOMAIN nodes

\* three NODE_SEND_DATA signals for Node 1: the POST of the first was rejected,
\* the second delivered the output, the third had nothing to send
C20_Witness ==
    /\ Len(requests) = 3 /\ SendRequests = {1, 2, 3}
    /\ \A q \in SendRequests : requests[q].id = 1 /\ requests[q].pc = "done"
    /\ \E r \in RscsOfRequest(1) : rscs[r].outcome = "PostRejected"
    /\ \E r \in RscsOfRequest(2) : rscs[r].outcome = "fulfilled"
    /\ RscsOfRequest(3) = {} /\ SendDataFailed(3)
    /\ nodes[1].output = Undefined

=============================================================================
